---- MODULE Spec2Model ----
(***************************************************************************)
(* A model of src/cloudant.py: the CloudantCheck agent check.              *)
(*                                                                         *)
(* Strings that the code takes apart or puts together (targets, metric     *)
(* names) are sequences of tokens; " " and "." are tokens of their own.    *)
(* A JSON scalar that may be null is a tuple: <<>> is null (Python None),  *)
(* <<5>> is the number 5.                                                  *)
(***************************************************************************)
EXTENDS Integers, Sequences, FiniteSets, TLC

VARIABLES
    last_timestamps,  \* self.last_timestamps: metric name -> last recorded epoch
    instances,        \* the instance configs the host passes to check(), by index
    phase,            \* "ready": the host is about to run a tick; "ran": check() was called
    ticked,           \* index of the instance the last tick was run for, 0 when none
    served,           \* <<B>>: the metrics endpoint still serves body B; <<>>: any body
    data,             \* <<body>>: the body the last tick handed to record_data; <<>>: none
    requests,         \* HTTP exchanges of the last tick, in order: endpoint, exception
    service_checks,   \* service checks emitted by the last tick, in order
    gauges,           \* gauges emitted by the last tick, in order
    writes,           \* ledger writes of the last tick, in order: key, old entry, new entry
    logs,             \* warning and info log lines of the last tick, in order
    raised            \* the exception check() raised in the last tick, or None

vars == <<last_timestamps, instances, phase, ticked, served, data, requests,
          service_checks, gauges, writes, logs, raised>>

----------------------------------------------------------------------------
(* Bounds of the model *)

MaxEpoch == 1
MaxTargets == 2
MaxPoints == 2
MaxTags == 1

----------------------------------------------------------------------------
(* Values *)

None == <<>>

OK == "OK"
CRITICAL == "CRITICAL"

Epochs == (0 - 1)..MaxEpoch

Values == {None, <<5>>}

Targets == {<<"GET", " ", "/a">>, <<"PUT", " ", "/a">>, <<"/b">>}

\* [value, epoch] pairs of the response JSON
Datapoints == Values \X Epochs

RECURSIVE SeqsUpTo(_, _)
SeqsUpTo(S, n) ==
    IF n = 0 THEN {<<>>}
    ELSE LET shorter == SeqsUpTo(S, n - 1)
         IN  shorter \cup {Append(s, x) : s \in shorter, x \in S}

TargetResponse(target, datapoints) ==
    [target |-> target, datapoints |-> datapoints]

\* the target_responses lists of at most t entries holding at most p
\* datapoints between them
RECURSIVE ResponseLists(_, _)
ResponseLists(t, p) ==
    IF t = 0 THEN {<<>>}
    ELSE {<<>>} \cup
         UNION {{<<TargetResponse(target, d)>> \o rest :
                    target \in Targets, rest \in ResponseLists(t - 1, p - Len(d))} :
                d \in SeqsUpTo(Datapoints, p)}

\* the scenario of the specification's section 8
ScenarioData ==
    [end |-> 100,
     target_responses |->
        <<TargetResponse(<<"GET", " ", "/a">>, <<<<<<5>>, 90>>>>)>>]

\* bodies of the rate/status_code endpoint
Batches ==
    {[end |-> e, target_responses |-> rs] :
        e \in Epochs, rs \in ResponseLists(MaxTargets, MaxPoints)}
    \cup {ScenarioData}

\* what one HTTP exchange of _get_stats comes to: an exception of requests
\* (or of r.json()), or the parsed body
Timeout == "Timeout"
HTTPError == "HTTPError"
ValueError == "ValueError"
TypeError == "TypeError"
ConfigException == "Exception"

Raises(e) == [raises |-> <<e>>, json |-> None]
Returns(body) == [raises |-> None, json |-> body]

Failures == {Raises(Timeout), Raises(HTTPError), Raises(ValueError)}

----------------------------------------------------------------------------
(* Strings *)

\* sep.join(parts)
RECURSIVE join(_, _)
join(sep, parts) ==
    IF parts = <<>> THEN <<>>
    ELSE IF Len(parts) = 1 THEN parts[1]
    ELSE parts[1] \o <<sep>> \o join(sep, Tail(parts))

\* s.split(' ', 1)[-1]: what follows the first space, or all of s without one
split_last(s) ==
    IF \E i \in 1..Len(s) : s[i] = " "
    THEN LET first == CHOOSE i \in 1..Len(s) :
                          s[i] = " " /\ \A j \in 1..(i - 1) : s[j] # " "
         IN  SubSeq(s, first + 1, Len(s))
    ELSE s

\* lambda target: target.split(' ', 1)[-1], as a function of the target
strip_method == [target \in Targets |-> split_last(target)]

\* 'cluster:{}'.format(instance['cluster'])
cluster_tag(instance) == <<"cluster", ":", instance.cluster>>

\* URL_TEMPLATE.format(endpoint=endpoint, **instance)
_build_url(endpoint, instance) ==
    <<"https://", instance.username, ".cloudant.com/_api/v2/monitoring/",
      endpoint, "?cluster=", instance.cluster>>

----------------------------------------------------------------------------
(* The dedup ledger and record_data *)

\* what a call changes of the check object and what it hands to the host
Effects(ledger) ==
    [last_timestamps |-> ledger, gauges |-> <<>>, writes |-> <<>>,
     logs |-> <<>>, raised |-> None]

\* _should_record_data that lets a key through only when it has no entry
_should_record_data_only_new_keys(ledger, tag, epoch) ==
    tag \notin DOMAIN ledger

\* last_ts = self.last_timestamps.get(tag, None); not last_ts or last_ts < epoch.
\* "not last_ts" is Python's truth test: true of None and of the integer 0.
_should_record_data(ledger, tag, epoch) ==
    LET present == tag \in DOMAIN ledger
        not_last_ts == ~present \/ ledger[tag] = 0
    IN  not_last_ts \/ ledger[tag] < epoch

\* store with the dict replaced by one holding the new entry only
store_replacing(ledger, metric_name, epoch) ==
    [k \in {metric_name} |-> epoch]

\* self.last_timestamps[metric_name] = epoch
store(ledger, metric_name, epoch) ==
    [k \in DOMAIN ledger \cup {metric_name} |->
        IF k = metric_name THEN epoch ELSE ledger[k]]

\* the entry of a key as a nullable scalar
entry(ledger, key) == IF key \in DOMAIN ledger THEN <<ledger[key]>> ELSE None

\* emit with the gauge handed to the host without tags
emit_untagged(eff, metric_name, value, epoch, tags) ==
    [eff EXCEPT
        !.logs = Append(@, <<"info", "Recording data">>),
        !.writes = Append(@, [key |-> metric_name,
                              old |-> entry(eff.last_timestamps, metric_name),
                              new |-> epoch]),
        !.last_timestamps = store(@, metric_name, epoch),
        !.gauges = Append(@, [name |-> metric_name, value |-> value,
                              tags |-> <<>>, timestamp |-> epoch])]

\* lines 114-117: log, write the ledger entry, emit the gauge
emit(eff, metric_name, value, epoch, tags) ==
    [eff EXCEPT
        !.logs = Append(@, <<"info", "Recording data">>),
        !.writes = Append(@, [key |-> metric_name,
                              old |-> entry(eff.last_timestamps, metric_name),
                              new |-> epoch]),
        !.last_timestamps = store(@, metric_name, epoch),
        !.gauges = Append(@, [name |-> metric_name, value |-> value,
                              tags |-> IF tags # <<>> THEN tags ELSE <<>>,
                              timestamp |-> epoch])]

\* record_datapoint without the test for a null value
record_datapoint_any_value(eff, metric_name, datapoint, tags) ==
    LET value == datapoint[1]
        epoch == datapoint[2]
    IN  IF _should_record_data(eff.last_timestamps, metric_name, epoch)
        THEN emit(eff, metric_name, value, epoch, tags)
        ELSE eff

\* record_datapoint with the ledger written before the value is looked at
record_datapoint_speculative(eff, metric_name, datapoint, tags) ==
    LET value == datapoint[1]
        epoch == datapoint[2]
    IN  IF _should_record_data(eff.last_timestamps, metric_name, epoch)
        THEN IF value # None
             THEN emit(eff, metric_name, value, epoch, tags)
             ELSE [eff EXCEPT !.last_timestamps = store(@, metric_name, epoch)]
        ELSE eff

\* the body of the loop over the datapoints of one target response
record_datapoint(eff, metric_name, datapoint, tags) ==
    LET value == datapoint[1]
        epoch == datapoint[2]
    IN  IF value # None /\ _should_record_data(eff.last_timestamps, metric_name, epoch)
        THEN emit(eff, metric_name, value, epoch, tags)
        ELSE eff

\* for datapoint in datapoints
RECURSIVE record_datapoints(_, _, _, _)
record_datapoints(eff, metric_name, datapoints, tags) ==
    IF datapoints = <<>> THEN eff
    ELSE record_datapoints(record_datapoint(eff, metric_name, Head(datapoints), tags),
                           metric_name, Tail(datapoints), tags)

\* for response in data['target_responses'], the metric names already derived
RECURSIVE record_responses(_, _, _)
record_responses(eff, named, tags) ==
    IF named = <<>> THEN eff
    ELSE record_responses(
            record_datapoints(eff, Head(named).metric_name, Head(named).datapoints, tags),
            Tail(named), tags)

\* prefix = '.'.join(['cloudant', endpoint_name])
Prefix(endpoint_name) == join(".", <<<<"cloudant">>, endpoint_name>>)

\* metric_name = '.'.join([prefix, stat_name_fn(target)])
MetricName(prefix, stat_name) == join(".", <<prefix, stat_name>>)

\* record_data(data, endpoint_name, stat_name_fn, tags) on the given ledger.
\* data['end'] of a null body raises TypeError before anything else happens.
\* Nothing stores an epoch under prefix: the keys written are metric names.
record_data(ledger, body, endpoint_name, stat_name_fn, tags) ==
    IF body = None
    THEN [Effects(ledger) EXCEPT !.raised = <<TypeError>>]
    ELSE
    LET end_epoch == body.end
        prefix == Prefix(endpoint_name)
        responses == body.target_responses
        named == [i \in 1..Len(responses) |->
                    [metric_name |-> MetricName(prefix, stat_name_fn[responses[i].target]),
                     datapoints |-> responses[i].datapoints]]
    IN  IF ~_should_record_data(ledger, prefix, end_epoch)
        THEN [Effects(ledger) EXCEPT !.logs = <<<<"info", "Skipping old data">>>>]
        ELSE record_responses(Effects(ledger), named, tags)

----------------------------------------------------------------------------
(* One tick: check(instance) *)

SERVICE_CHECK_NAME == <<"cloudant", ".", "can_connect">>

\* _validate_instance with the password left out of the required keys
_validate_instance_without_password(instance) ==
    IF "cluster" \notin DOMAIN instance THEN <<"cluster">>
    ELSE IF "username" \notin DOMAIN instance THEN <<"username">>
    ELSE None

\* the first of the required keys the instance lacks, or None
_validate_instance(instance) ==
    IF "cluster" \notin DOMAIN instance THEN <<"cluster">>
    ELSE IF "username" \notin DOMAIN instance THEN <<"username">>
    ELSE IF "password" \notin DOMAIN instance THEN <<"password">>
    ELSE None

\* self.service_check(self.SERVICE_CHECK_NAME, status, tags=tags, message=message)
service_check(status, tags, message) ==
    [name |-> SERVICE_CHECK_NAME, status |-> status, tags |-> tags, message |-> message]

\* check_connection with an HTTP error re-raised but not reported
check_connection_http_unreported(probe, instance, tags) ==
    LET url == _build_url("uptime", instance)
        e == probe.raises
    IN  IF e = <<Timeout>>
        THEN [service_checks |-> <<service_check(CRITICAL, tags, <<"Request timeout", url, e>>)>>,
              raised |-> e]
        ELSE IF e = <<HTTPError>>
        THEN [service_checks |-> <<>>, raised |-> e]
        ELSE IF e # None
        THEN [service_checks |-> <<service_check(CRITICAL, tags, <<e>>)>>, raised |-> e]
        ELSE [service_checks |-> <<service_check(OK, tags, <<"Connection was successful", url>>)>>,
              raised |-> None]

\* check_connection with a timeout reported but not re-raised
check_connection_timeout_swallowed(probe, instance, tags) ==
    LET url == _build_url("uptime", instance)
        e == probe.raises
    IN  IF e = <<Timeout>>
        THEN [service_checks |-> <<service_check(CRITICAL, tags, <<"Request timeout", url, e>>)>>,
              raised |-> None]
        ELSE IF e = <<HTTPError>>
        THEN [service_checks |-> <<service_check(CRITICAL, tags, <<e>>)>>, raised |-> e]
        ELSE IF e # None
        THEN [service_checks |-> <<service_check(CRITICAL, tags, <<e>>)>>, raised |-> e]
        ELSE [service_checks |-> <<service_check(OK, tags, <<"Connection was successful", url>>)>>,
              raised |-> None]

\* the service check check_connection emits and the exception it re-raises
check_connection(probe, instance, tags) ==
    LET url == _build_url("uptime", instance)
        e == probe.raises
    IN  IF e = <<Timeout>>
        THEN [service_checks |-> <<service_check(CRITICAL, tags, <<"Request timeout", url, e>>)>>,
              raised |-> e]
        ELSE IF e = <<HTTPError>>
        THEN [service_checks |-> <<service_check(CRITICAL, tags, <<e>>)>>, raised |-> e]
        ELSE IF e # None
        THEN [service_checks |-> <<service_check(CRITICAL, tags, <<e>>)>>, raised |-> e]
        ELSE [service_checks |-> <<service_check(OK, tags, <<"Connection was successful", url>>)>>,
              raised |-> None]

\* get_status_code_data with the HTTP error of the metrics fetch left uncaught
get_status_code_data_http_uncaught(ledger, stats, instance, tags) ==
    LET idle == Effects(ledger)
    IN  IF stats.raises # None
        THEN [eff |-> [idle EXCEPT !.raised = stats.raises], data |-> <<>>]
        ELSE
        LET body == stats.json
            warned == IF body = None
                      THEN <<<<"warning", "No stats could be retrieved">>>>
                      ELSE <<>>
            rec == record_data(ledger, body, <<"status_code">>, strip_method, tags)
        IN  [eff |-> [rec EXCEPT !.logs = warned \o @], data |-> <<body>>]

\* get_status_code_data with every exception of the metrics fetch caught
get_status_code_data_catch_all(ledger, stats, instance, tags) ==
    LET idle == Effects(ledger)
    IN  IF stats.raises # None
        THEN [eff |-> [idle EXCEPT !.logs = <<<<"warning", "Error reading data from URL">>>>],
              data |-> <<>>]
        ELSE
        LET body == stats.json
            warned == IF body = None
                      THEN <<<<"warning", "No stats could be retrieved">>>>
                      ELSE <<>>
            rec == record_data(ledger, body, <<"status_code">>, strip_method, tags)
        IN  [eff |-> [rec EXCEPT !.logs = warned \o @], data |-> <<body>>]

\* the tick's effects from the metrics fetch on; data is what reached record_data
get_status_code_data(ledger, stats, instance, tags) ==
    LET endpoint == "rate/status_code"
        url == _build_url(endpoint, instance)
        idle == Effects(ledger)
    IN  IF stats.raises = <<HTTPError>>
        THEN [eff |-> [idle EXCEPT !.logs = <<<<"warning", "Error reading data from URL">>>>],
              data |-> <<>>]
        ELSE IF stats.raises # None
        THEN [eff |-> [idle EXCEPT !.raised = stats.raises], data |-> <<>>]
        ELSE
        LET body == stats.json
            warned == IF body = None
                      THEN <<<<"warning", "No stats could be retrieved">>>>
                      ELSE <<>>
            rec == record_data(ledger, body, <<"status_code">>, strip_method, tags)
        IN  [eff |-> [rec EXCEPT !.logs = warned \o @], data |-> <<body>>]

\* one exchange of _get_stats as the tick's log keeps it
Exchange(endpoint, outcome) == [endpoint |-> endpoint, raises |-> outcome.raises]

\* everything one call of check(instance) does
check(ledger, instance, probe, stats) ==
    LET missing == _validate_instance(instance)
        quiet == [last_timestamps |-> ledger, instance |-> instance, data |-> <<>>,
                  requests |-> <<>>, service_checks |-> <<>>, gauges |-> <<>>,
                  writes |-> <<>>, logs |-> <<>>, raised |-> None]
    IN  IF missing # None
        THEN [quiet EXCEPT !.raised = <<ConfigException>>]
        ELSE
        LET tagged == "tags" \in DOMAIN instance
            tags == (IF tagged THEN instance.tags ELSE <<>>) \o <<cluster_tag(instance)>>
            after == IF tagged THEN [instance EXCEPT !.tags = tags] ELSE instance
            conn == check_connection(probe, after, tags)
        IN  IF conn.raised # None
            THEN [quiet EXCEPT !.instance = after,
                               !.requests = <<Exchange("uptime", probe)>>,
                               !.service_checks = conn.service_checks,
                               !.raised = conn.raised]
            ELSE
            LET got == get_status_code_data(ledger, stats, after, tags)
            IN  [last_timestamps |-> got.eff.last_timestamps,
                 instance |-> after,
                 data |-> got.data,
                 requests |-> <<Exchange("uptime", probe),
                                Exchange("rate/status_code", stats)>>,
                 service_checks |-> conn.service_checks,
                 gauges |-> got.eff.gauges,
                 writes |-> got.eff.writes,
                 logs |-> got.eff.logs,
                 raised |-> got.eff.raised]

----------------------------------------------------------------------------
(* The state machine *)

InitialInstances ==
    <<[cluster |-> "A", username |-> "u", password |-> "p", tags |-> <<>>],
      [cluster |-> "B", username |-> "u", password |-> "p"],
      [cluster |-> "A", username |-> "u"],
      [cluster |-> "A", password |-> "p"],
      [username |-> "u", password |-> "p"]>>

Init ==
    /\ last_timestamps = <<>>
    /\ instances = InitialInstances
    /\ phase = "ready"
    /\ ticked = 0
    /\ served = <<>>
    /\ data = <<>>
    /\ requests = <<>>
    /\ service_checks = <<>>
    /\ gauges = <<>>
    /\ writes = <<>>
    /\ logs = <<>>
    /\ raised = None

\* the bodies the metrics endpoint can answer with
Bodies == IF served = <<>> THEN Batches \cup {None} ELSE {served[1]}

\* what the uptime endpoint and the rate/status_code endpoint answer in one
\* tick. An exchange the tick does not get to (the instance is invalid, the
\* probe failed) is not varied: there the endpoints are healthy and the
\* metrics endpoint has the scenario's body.
Exchanges(instance) ==
    IF _validate_instance(instance) # None
    THEN {<<Returns(None), Returns(ScenarioData)>>}
    ELSE {<<f, Returns(ScenarioData)>> : f \in Failures}
         \cup {<<Returns(None), f>> : f \in Failures}
         \cup {<<Returns(None), Returns(b)>> : b \in Bodies}

\* the host runs one tick: check(instances[i])
Check(i) ==
    /\ phase = "ready"
    /\ "tags" \in DOMAIN instances[i] => Len(instances[i].tags) < MaxTags
    /\ \E x \in Exchanges(instances[i]) :
          LET tick == check(last_timestamps, instances[i], x[1], x[2])
          IN  /\ last_timestamps' = tick.last_timestamps
              /\ instances' = [instances EXCEPT ![i] = tick.instance]
              /\ data' = tick.data
              /\ requests' = tick.requests
              /\ service_checks' = tick.service_checks
              /\ gauges' = tick.gauges
              /\ writes' = tick.writes
              /\ logs' = tick.logs
              /\ raised' = tick.raised
    /\ phase' = "ran"
    /\ ticked' = i
    /\ served' = <<>>

\* the host takes what the tick emitted; until the next tick the metrics
\* endpoint either keeps the body it answered with or moves on
Collect ==
    /\ phase = "ran"
    /\ phase' = "ready"
    /\ ticked' = 0
    /\ served' \in {<<>>, data}
    /\ data' = <<>>
    /\ requests' = <<>>
    /\ service_checks' = <<>>
    /\ gauges' = <<>>
    /\ writes' = <<>>
    /\ logs' = <<>>
    /\ raised' = None
    /\ UNCHANGED <<last_timestamps, instances>>

Next ==
    \/ \E i \in DOMAIN instances : Check(i)
    \/ Collect

Spec == Init /\ [][Next]_vars

----------------------------------------------------------------------------
(* Properties *)

\* the last tick handed a batch (not null) to record_data
Processed == phase = "ran" /\ data # <<>> /\ data # <<None>>

\* name, value and timestamp of each gauge, in order
Emitted(gs) == [i \in 1..Len(gs) |-> <<gs[i].name, gs[i].value, gs[i].timestamp>>]

StatusCodePrefix == Prefix(<<"status_code">>)

\* every key the ledger can be asked about
Keys == {StatusCodePrefix} \cup {MetricName(StatusCodePrefix, split_last(t)) : t \in Targets}

\* C1: a gauge for metric name M with timestamp E is emitted only if, when
\* record_data decides on it, the ledger has no entry for M or an entry
\* strictly less than E.
C1_EmittedOnlyIfStrictlyNewer ==
    \A i \in 1..Len(gauges) :
        /\ writes[i].key = gauges[i].name
        /\ writes[i].old = None \/ writes[i].old[1] < gauges[i].timestamp

\* C2: every write to last_timestamps[M] stores an epoch greater than or
\* equal to the entry it replaces.
C2_LedgerNeverDecreases ==
    \A i \in 1..Len(writes) :
        writes[i].old = None \/ writes[i].old[1] <= writes[i].new

\* C3: when record_data gets the body it got in the call before, the second
\* call emits no gauge and leaves the ledger as it was.
C3_SecondPassEmitsNothing ==
    [][(served # <<>> /\ data' = served)
        => (gauges' = <<>> /\ last_timestamps' = last_timestamps)]_vars

\* C4: once record_data has processed a batch with end epoch E, a later call
\* with a batch whose end is not greater than E (here: the same batch again)
\* is skipped at the prefix check and emits no gauge.
C4_StaleBatchIsSkipped ==
    [][(served # <<>> /\ served # <<None>> /\ data' = served)
        => (logs' = <<<<"info", "Skipping old data">>>> /\ gauges' = <<>>)]_vars

ScenarioMetric == <<"cloudant", ".", "status_code", ".", "/a">>

\* C5: from an empty ledger, record_data on the scenario batch emits exactly
\* the gauge (cloudant.status_code./a, 5, 90) and leaves the ledger holding
\* cloudant.status_code = 100 and cloudant.status_code./a = 90.
C5_ScenarioFirstCall ==
    [][(last_timestamps = <<>> /\ data' = <<ScenarioData>>)
        => /\ Emitted(gauges') = <<<<ScenarioMetric, <<5>>, 90>>>>
           /\ last_timestamps' =
                 store(store(<<>>, <<"cloudant", ".", "status_code">>, 100),
                       ScenarioMetric, 90)]_vars

\* C6: _should_record_data(key, epoch) is true if and only if key has no
\* ledger entry or its stored epoch is strictly less than epoch.
C6_ShouldRecordIffAbsentOrOlder ==
    \A key \in Keys, epoch \in Epochs :
        _should_record_data(last_timestamps, key, epoch)
            <=> (key \notin DOMAIN last_timestamps \/ last_timestamps[key] < epoch)

\* the batch without its datapoints of null value
WithoutNulls(body) ==
    [body EXCEPT !.target_responses =
        [i \in 1..Len(@) |->
            [@[i] EXCEPT !.datapoints = SelectSeq(@, LAMBDA dp : dp[1] # None)]]]

\* C7: a datapoint of null value is never emitted and never changes the
\* ledger: a tick emits the gauges and leaves the ledger that it would
\* with the null-valued datapoints taken out of the batch.
C7_NullValuesAreIgnored ==
    [][(Processed')
        => LET rec == record_data(last_timestamps, WithoutNulls(data'[1]),
                                  <<"status_code">>, strip_method, <<>>)
           IN  /\ Emitted(gauges') = Emitted(rec.gauges)
               /\ last_timestamps' = rec.last_timestamps
               /\ \A i \in 1..Len(gauges') : gauges'[i].value # None]_vars

\* a tick recorded a batch holding a null-valued datapoint of a metric name
\* that, after the tick, still has no ledger entry
C7_Witness ==
    /\ Processed
    /\ gauges # <<>>
    /\ \E i \in 1..Len(data[1].target_responses) :
          LET r == data[1].target_responses[i]
          IN  /\ \E j \in 1..Len(r.datapoints) : r.datapoints[j][1] = None
              /\ MetricName(StatusCodePrefix, split_last(r.target))
                    \notin DOMAIN last_timestamps

\* C8: a call of check_connection emits exactly one service check: OK if and
\* only if the uptime fetch returned; CRITICAL if it raised a timeout, an
\* HTTP error or another exception, which then reaches the caller.
C8_OneServiceCheckPerProbe ==
    (phase = "ran" /\ requests # <<>>)
        => /\ requests[1].endpoint = "uptime"
           /\ Len(service_checks) = 1
           /\ service_checks[1].status \in {OK, CRITICAL}
           /\ service_checks[1].status = OK <=> requests[1].raises = None
           /\ requests[1].raises # None => raised = requests[1].raises

\* the probe met an HTTP error: CRITICAL was emitted and the error raised
C8_Witness ==
    /\ phase = "ran"
    /\ requests # <<>>
    /\ requests[1].raises = <<HTTPError>>
    /\ Len(service_checks) = 1
    /\ service_checks[1].status = CRITICAL
    /\ raised = <<HTTPError>>

\* C9: when the liveness probe fails, the tick stops there: no request goes
\* to rate/status_code, no gauge is emitted and the ledger stays as it was.
C9_FailedProbeAbortsTick ==
    [][(phase' = "ran" /\ requests' # <<>> /\ requests'[1].raises # None)
        => /\ Len(requests') = 1
           /\ Len(service_checks') = 1
           /\ service_checks'[1].status = CRITICAL
           /\ gauges' = <<>>
           /\ data' = <<>>
           /\ last_timestamps' = last_timestamps]_vars

\* the probe timed out in a tick that started with entries in the ledger
C9_Witness ==
    /\ phase = "ran"
    /\ requests # <<>>
    /\ requests[1].raises = <<Timeout>>
    /\ service_checks # <<>>
    /\ service_checks[1].status = CRITICAL
    /\ DOMAIN last_timestamps # {}

C11_NullPayloadIsNoOp ==
    [][(phase' = "ran" /\ data' = <<None>>)
        => /\ logs' = <<<<"warning", "No stats could be retrieved">>>>
           /\ raised' = None
           /\ gauges' = <<>>
           /\ last_timestamps' = last_timestamps]_vars

RequiredKeys == {"cluster", "username", "password"}

\* C12: a tick for an instance that lacks cluster, username or password
\* fails before any HTTP request: no service check, no gauge, and neither
\* the ledger nor the instance configs change.
C12_InvalidInstanceFailsFirst ==
    [][(phase' = "ran" /\ ~(RequiredKeys \subseteq DOMAIN instances[ticked']))
        => /\ raised' = <<ConfigException>>
           /\ requests' = <<>>
           /\ service_checks' = <<>>
           /\ gauges' = <<>>
           /\ last_timestamps' = last_timestamps
           /\ instances' = instances]_vars

\* a tick for the instance without a password failed, with entries in the ledger
C12_Witness ==
    /\ phase = "ran"
    /\ ticked # 0
    /\ "password" \notin DOMAIN instances[ticked]
    /\ raised = <<ConfigException>>
    /\ DOMAIN last_timestamps # {}

\* what record_data emits for a batch when the ledger is empty
EmittedAlone(body) ==
    Emitted(record_data(<<>>, body, <<"status_code">>, strip_method, <<>>).gauges)

\* C13: dedup state is not shared between clusters: the gauges a cluster's
\* ticks emit do not depend on ticks run for another cluster. Stated of the
\* first tick of the instance that has a tags list (its list is empty until
\* its first tick): it emits what it emits when no other tick came before.
C13_ClusterDedupIsIndependent ==
    [][(ticked' = 1 /\ instances[1].tags = <<>> /\ Processed')
        => Emitted(gauges') = EmittedAlone(data'[1])]_vars

\* C14: check(instance) leaves every field of the instance config, the
\* contents of its tags list included, as it was before the call.
C14_InstanceConfigUnchanged ==
    [][(phase' = "ran") => instances' = instances]_vars

\* C15: every service check and every gauge of a tick carries the tag
\* cluster:<id> of the instance the tick was run for.
C15_SignalsCarryClusterTag ==
    (phase = "ran" /\ ticked # 0)
        => LET tag == <<"cluster", ":", instances[ticked].cluster>>
           IN  /\ \A i \in 1..Len(service_checks) :
                     \E j \in 1..Len(service_checks[i].tags) : service_checks[i].tags[j] = tag
               /\ \A i \in 1..Len(gauges) :
                     \E j \in 1..Len(gauges[i].tags) : gauges[i].tags[j] = tag

\* a tick for the instance without a tags list emitted a service check and a gauge
C15_Witness ==
    /\ phase = "ran"
    /\ ticked # 0
    /\ "tags" \notin DOMAIN instances[ticked]
    /\ service_checks # <<>>
    /\ gauges # <<>>

\* the batch holds a datapoint of this metric name, value and epoch
HasDatapoint(body, name, value, epoch) ==
    \E i \in 1..Len(body.target_responses) :
        LET r == body.target_responses[i]
        IN  /\ MetricName(StatusCodePrefix, split_last(r.target)) = name
            /\ \E j \in 1..Len(r.datapoints) : r.datapoints[j] = <<value, epoch>>

\* C16: the ledger is never written speculatively: an entry that a step sets
\* or changes holds the epoch of a datapoint of the batch that the same step
\* emitted as a gauge of that metric name with that timestamp, and a step
\* writes the ledger exactly as often as it emits.
C16_WritesOnlyWithEmission ==
    [][/\ Len(writes') = Len(gauges')
       /\ \A i \in 1..Len(gauges') :
             /\ writes'[i].key = gauges'[i].name
             /\ writes'[i].new = gauges'[i].timestamp
       /\ \A k \in DOMAIN last_timestamps' :
             (k \notin DOMAIN last_timestamps \/ last_timestamps'[k] # last_timestamps[k])
                => /\ Processed'
                   /\ \E i \in 1..Len(gauges') :
                         /\ gauges'[i].name = k
                         /\ gauges'[i].timestamp = last_timestamps'[k]
                         /\ HasDatapoint(data'[1], k, gauges'[i].value,
                                         gauges'[i].timestamp)]_vars

\* a tick recorded a batch and emitted fewer gauges than it has datapoints
C16_Witness ==
    /\ Processed
    /\ gauges # <<>>
    /\ \E i \in 1..Len(data[1].target_responses) :
          Len(data[1].target_responses[i].datapoints) > Len(gauges)

\* the names of the gauges
GaugeNames(gs) == {gs[i].name : i \in 1..Len(gs)}

\* the timestamp of the last gauge of that name
LastTimestamp(gs, name) ==
    LET last == CHOOSE i \in 1..Len(gs) :
                    /\ gs[i].name = name
                    /\ \A j \in (i + 1)..Len(gs) : gs[j].name # name
    IN  gs[last].timestamp

\* C17: no eviction: each step leaves the ledger with the entries it had
\* and those of the metric names it emitted a gauge for; the entry of a name
\* emitted in the step is the timestamp of its last gauge, every other entry
\* is kept as it was. (From the empty ledger and no gauge at the start: the
\* ledger has an entry for exactly the names ever emitted.)
C17_NoEviction ==
    [][/\ DOMAIN last_timestamps' = DOMAIN last_timestamps \cup GaugeNames(gauges')
       /\ \A k \in DOMAIN last_timestamps' :
             last_timestamps'[k] =
                IF k \in GaugeNames(gauges')
                THEN LastTimestamp(gauges', k)
                ELSE last_timestamps[k]]_vars

\* a tick emitted a gauge while the ledger held an entry of another name
C17_Witness ==
    /\ phase = "ran"
    /\ gauges # <<>>
    /\ \E k \in DOMAIN last_timestamps : k \notin GaugeNames(gauges)

\* C18: when the probe succeeds and the metrics fetch fails with a timeout
\* or another failure that is not an HTTP error, the failure leaves check()
\* after the OK service check, with no gauge and the ledger as it was.
C18_MetricsTimeoutPropagates ==
    [][(/\ phase' = "ran"
        /\ Len(requests') = 2
        /\ requests'[2].raises # None
        /\ requests'[2].raises # <<HTTPError>>)
        => /\ raised' = requests'[2].raises
           /\ Len(service_checks') = 1
           /\ service_checks'[1].status = OK
           /\ gauges' = <<>>
           /\ logs' = <<>>
           /\ last_timestamps' = last_timestamps]_vars

\* the metrics fetch timed out after a successful probe, in a tick that
\* started with entries in the ledger
C18_Witness ==
    /\ phase = "ran"
    /\ Len(requests) = 2
    /\ requests[1].raises = None
    /\ requests[2].raises = <<Timeout>>
    /\ raised = <<Timeout>>
    /\ DOMAIN last_timestamps # {}

\* the targets of the batch give pairwise distinct metric names
DistinctNames(body) ==
    \A i, j \in 1..Len(body.target_responses) :
        i # j => split_last(body.target_responses[i].target)
                    # split_last(body.target_responses[j].target)

\* the datapoints of every target are in strictly ascending epoch order
Ascending(body) ==
    \A i \in 1..Len(body.target_responses) :
        LET dps == body.target_responses[i].datapoints
        IN  \A j \in 1..(Len(dps) - 1) : dps[j][2] < dps[j + 1][2]

\* name, value and epoch of the datapoints of non-null value, in list order
RECURSIVE Fresh(_)
Fresh(responses) ==
    IF responses = <<>> THEN <<>>
    ELSE LET r == Head(responses)
             name == MetricName(StatusCodePrefix, split_last(r.target))
             kept == SelectSeq(r.datapoints, LAMBDA dp : dp[1] # None)
         IN  [j \in 1..Len(kept) |-> <<name, kept[j][1], kept[j][2]>>]
                \o Fresh(Tail(responses))

\* C19: from an empty ledger, a batch whose targets give pairwise distinct
\* metric names and whose datapoints ascend strictly per target has every
\* datapoint of non-null value emitted exactly once, in list order, with its
\* own epoch as timestamp.
C19_NoFreshDatapointLost ==
    [][(/\ last_timestamps = <<>>
        /\ Processed'
        /\ DistinctNames(data'[1])
        /\ Ascending(data'[1]))
        => Emitted(gauges') = Fresh(data'[1].target_responses)]_vars

\* such a batch with two datapoints of one target, both emitted
C19_Witness ==
    /\ Processed
    /\ DistinctNames(data[1])
    /\ Ascending(data[1])
    /\ Len(gauges) = 2
    /\ gauges[1].name = gauges[2].name
    /\ DOMAIN last_timestamps = {gauges[1].name}

\* two target responses of one datapoint each whose targets differ only
\* before the first space
SameRouteTwice(body) ==
    /\ Len(body.target_responses) = 2
    /\ Len(body.target_responses[1].datapoints) = 1
    /\ Len(body.target_responses[2].datapoints) = 1
    /\ body.target_responses[1].target # body.target_responses[2].target
    /\ split_last(body.target_responses[1].target)
          = split_last(body.target_responses[2].target)

\* C20: two targets of a batch that differ only before their first space
\* share one ledger entry: when the earlier target's datapoint was emitted,
\* the later target's datapoint is emitted only if its epoch is strictly
\* greater.
C20_SameRouteSharesEntry ==
    [][(last_timestamps = <<>> /\ Processed' /\ SameRouteTwice(data'[1]))
        => /\ DOMAIN last_timestamps' \subseteq
                 {MetricName(StatusCodePrefix,
                             split_last(data'[1].target_responses[1].target))}
           /\ Len(gauges') = 2 => gauges'[1].timestamp < gauges'[2].timestamp]_vars

====
